---- MODULE Spec2Model ----
(***************************************************************************)
(* Model of app2.py, the Streamlit dashboard for year-over-year health     *)
(* expenditure.  The script is re-executed from top to bottom on every UI  *)
(* event, so every action below is "one widget changes, then the whole     *)
(* script runs".  Column labels are sequences of one-character strings so  *)
(* that the regular expression \d{4} and the test 'YoY' in col are         *)
(* computed, not assumed.  Cell values are tenths of a percent (9.7% is    *)
(* 97), which keeps the sample data exact.                                 *)
(***************************************************************************)
EXTENDS Integers, Sequences, FiniteSets, TLC

VARIABLES uploaded_file, sample_checked, viz_type, selected_countries,
          yoy_data, yoy_change, yoy_long, filtered_data, filtered_long,
          screen, label, year

vars == << uploaded_file, sample_checked, viz_type, selected_countries,
           yoy_data, yoy_change, yoy_long, filtered_data, filtered_long,
           screen, label, year >>

(* ---------------------------- bounds ----------------------------------- *)
MaxRows == 2
MaxCols == 2
MaxLabelLen == 10

(* ------------------------- characters and labels ----------------------- *)
DigitChars == {"0", "1", "2", "3", "4", "5", "6", "7", "8", "9"}

DigitVal(c) ==
  CASE c = "0" -> 0 [] c = "1" -> 1 [] c = "2" -> 2 [] c = "3" -> 3
    [] c = "4" -> 4 [] c = "5" -> 5 [] c = "6" -> 6 [] c = "7" -> 7
    [] c = "8" -> 8 [] c = "9" -> 9

YoYMarker == <<"Y", "o", "Y">>

Contains(s, sub) ==
  \E i \in 1..(Len(s) - Len(sub) + 1) : SubSeq(s, i, i + Len(sub) - 1) = sub

(* the literal format "<YYYY> YoY (%)" of the sample data *)
SampleLabel(y) == y \o <<" ", "Y", "o", "Y", " ", "(", "%", ")">>

(* ------------------------------ None / NaN ------------------------------ *)
None == [kind |-> "None"]
NaN == << >>

IsNone(x) == x.kind = "None"

(* ------------------------------ load_data ------------------------------- *)
RequiredSheet == "YoY_Health_Expenditure"

DataFrame(columns, rows) == [kind |-> "DataFrame", columns |-> columns, rows |-> rows]

(* what any sheet other than the required one holds *)
DecoySheet ==
  DataFrame(<< <<"1", "9", "9", "9", " ", "Y", "o", "Y">> >>,
            << [name |-> "Decoy", code |-> "DCY", vals |-> <<7>>] >>)

ReadExcel(file) ==
  [s \in file.sheets |-> IF s = RequiredSheet THEN file.data ELSE DecoySheet]

(* load_data falling back to whatever sheet the workbook has *)
load_data_any_sheet(file) ==
  IF IsNone(file)
    THEN [data |-> None, error |-> FALSE, sheets |-> {}]
    ELSE LET excel_data == ReadExcel(file)
         IN IF RequiredSheet \in DOMAIN excel_data
              THEN [data |-> excel_data[RequiredSheet], error |-> FALSE,
                    sheets |-> DOMAIN excel_data]
              ELSE [data |-> excel_data[CHOOSE x \in DOMAIN excel_data : TRUE],
                    error |-> FALSE, sheets |-> DOMAIN excel_data]

load_data(file) ==
  IF IsNone(file)
    THEN [data |-> None, error |-> FALSE, sheets |-> {}]
    ELSE LET excel_data == ReadExcel(file)
         IN IF RequiredSheet \in DOMAIN excel_data
              THEN [data |-> excel_data[RequiredSheet], error |-> FALSE,
                    sheets |-> DOMAIN excel_data]
              ELSE [data |-> None, error |-> TRUE, sheets |-> DOMAIN excel_data]

(* ----------------------------- process_data ----------------------------- *)
(* process_data returns, besides its two results, its argument as the      *)
(* argument is once the call is over (field data)                          *)
NumRows(data) == Len(data.rows)
NumCols(data) == Len(data.columns)

(* melt that repeats the first row instead of walking the rows *)
MeltRepeatsFirstRow(data) ==
  [k \in 1..(NumRows(data) * NumCols(data)) |->
     LET c == ((k - 1) \div NumRows(data)) + 1
     IN [name  |-> data.rows[1].name,
         code  |-> data.rows[1].code,
         Year  |-> data.columns[c],
         value |-> data.rows[1].vals[c]]]

(* pd.melt: one row per (original row, pivoted column), column-major *)
Melt(data) ==
  [k \in 1..(NumRows(data) * NumCols(data)) |->
     LET c == ((k - 1) \div NumRows(data)) + 1
         r == ((k - 1) % NumRows(data)) + 1
     IN [name  |-> data.rows[r].name,
         code  |-> data.rows[r].code,
         Year  |-> data.columns[c],
         value |-> data.rows[r].vals[c]]]

MatchAt(s, i) == i + 3 <= Len(s) /\ \A k \in 0..3 : s[i + k] \in DigitChars

(* Series.str.extract(r'(\d{4})'): leftmost four consecutive digits, or NaN *)
StrExtract(s) ==
  IF \E i \in 1..Len(s) : MatchAt(s, i)
    THEN LET i == CHOOSE i \in 1..Len(s) :
                    MatchAt(s, i) /\ \A j \in 1..(i - 1) : ~MatchAt(s, j)
         IN SubSeq(s, i, i + 3)
    ELSE NaN

(* int() of a four-digit string *)
AsTypeInt(d) ==
  1000 * DigitVal(d[1]) + 100 * DigitVal(d[2]) + 10 * DigitVal(d[3]) + DigitVal(d[4])

(* extraction with the missing year defaulted to 0 instead of raising *)
process_data_coerce(data) ==
  IF IsNone(data)
    THEN [raised |-> FALSE, data |-> data, yoy_change |-> None, yoy_long |-> None]
    ELSE LET melted == Melt(data)
         IN [raised |-> FALSE,
             data |-> data,
             yoy_change |-> data,
             yoy_long |-> [kind |-> "DataFrame",
                           rows |-> [k \in 1..Len(melted) |->
                              [melted[k] EXCEPT !.Year =
                                 IF StrExtract(melted[k].Year) = NaN THEN 0
                                 ELSE AsTypeInt(StrExtract(melted[k].Year))]]]]

Copy(data) == data

process_data(data) ==
  IF IsNone(data)
    THEN [raised |-> FALSE, data |-> data, yoy_change |-> None, yoy_long |-> None]
    ELSE LET change    == Copy(data)
             melted    == Melt(change)
             extracted == [k \in 1..Len(melted) |-> StrExtract(melted[k].Year)]
         IN IF \E k \in 1..Len(melted) : extracted[k] = NaN
              THEN [raised |-> TRUE, data |-> data, yoy_change |-> None, yoy_long |-> None]
              ELSE [raised |-> FALSE,
                    data |-> data,
                    yoy_change |-> change,
                    yoy_long |-> [kind |-> "DataFrame",
                                  rows |-> [k \in 1..Len(melted) |->
                                     [melted[k] EXCEPT !.Year = AsTypeInt(extracted[k])]]]]

(* one label through line 53: extract, then astype(int) *)
ParseYear(s) ==
  LET e == StrExtract(s)
  IN IF e = NaN THEN [kind |-> "raised"] ELSE [kind |-> "int", val |-> AsTypeInt(e)]

(* ------------------------------ filtering ------------------------------- *)
Isin(rows, selection) == SelectSeq(rows, LAMBDA r : r.name \in selection)

(* a filter that lets every row pass *)
FilterRowsKeepsAll(df, selection) == df

FilterRows(df, selection) ==
  IF selection = {} THEN df ELSE [df EXCEPT !.rows = Isin(df.rows, selection)]

CountryOptions(df) == {df.rows[r].name : r \in 1..Len(df.rows)}

(* ------------------------------- charts --------------------------------- *)
LineChart == "Line Chart - YoY Change"
Heatmap   == "Heatmap - YoY Change"
BarChart  == "Bar Chart - Average YoY Change"
VizTypes  == {LineChart, Heatmap, BarChart}

(* outcome of one chart function: what it drew, what it warned, whether it *)
(* raised, and the table it was handed as that table is after the call     *)
Outcome(charts, warnings, exception, data) ==
  [charts |-> charts, warnings |-> warnings, exception |-> exception, data |-> data]

plot_yoy_line_chart(data) ==
  IF Len(data.rows) = 0
    THEN {Outcome(<< >>, 1, FALSE, data)}
    ELSE {Outcome(<< [type |-> "line", data |-> data.rows] >>, 0, FALSE, data)}

(* every pivoted column, marked 'YoY' or not *)
YoYColsUnmarked(data) == 1..Len(data.columns)

(* [col for col in columns if 'YoY' in col]; the two id columns have no 'YoY' *)
YoYCols(data) == {c \in 1..Len(data.columns) : Contains(data.columns[c], YoYMarker)}

RECURSIVE SumOver(_, _)
SumOver(vals, cols) ==
  IF cols = {} THEN 0
  ELSE LET c == CHOOSE c \in cols : TRUE
       IN vals[c] + SumOver(vals, cols \ {c})

(* a mean that also counts the two id columns *)
RowMeanCountsIdColumns(vals, cols) ==
  [num |-> SumOver(vals, cols), den |-> Cardinality(cols) + 2]

(* DataFrame.mean(axis=1) over the chosen columns, kept exact as num/den;  *)
(* den = 0 is the NaN that the mean of no columns gives                    *)
RowMean(vals, cols) == [num |-> SumOver(vals, cols), den |-> Cardinality(cols)]

GreaterEq(a, b) == a.num * b.den >= b.num * a.den

(* the same sort, ascending *)
SortValuesAscending(rows) ==
  IF Len(rows) = 0 \/ rows[1].avg.den = 0 THEN {rows}
  ELSE {[k \in 1..Len(rows) |-> rows[p[k]]] :
          p \in {q \in Permutations(1..Len(rows)) :
                   \A k \in 1..(Len(rows) - 1) :
                      GreaterEq(rows[q[k + 1]].avg, rows[q[k]].avg)}}

(* sort_values(ascending=False) with the default (unstable) quicksort:     *)
(* any arrangement of the rows in which the key never increases; rows      *)
(* whose key is NaN keep their order                                       *)
SortValuesDescending(rows) ==
  IF Len(rows) = 0 \/ rows[1].avg.den = 0 THEN {rows}
  ELSE {[k \in 1..Len(rows) |-> rows[p[k]]] :
          p \in {q \in Permutations(1..Len(rows)) :
                   \A k \in 1..(Len(rows) - 1) :
                      GreaterEq(rows[q[k]].avg, rows[q[k + 1]].avg)}}

(* heatmap without the zero-row guard *)
plot_yoy_heatmap_unguarded(data) ==
  {Outcome(<< [type |-> "heatmap",
               data |-> [r \in 1..Len(data.rows) |->
                           [name  |-> data.rows[r].name,
                            cells |-> [c \in YoYCols(data) |-> data.rows[r].vals[c]]]]] >>,
           0, FALSE, data)}

plot_yoy_heatmap(data) ==
  IF Len(data.rows) = 0
    THEN {Outcome(<< >>, 1, FALSE, data)}
    ELSE LET yoy_cols == YoYCols(data)
         IN IF yoy_cols = {}
              THEN (* seaborn cannot take the min of a zero-size matrix *)
                   {Outcome(<< >>, 0, TRUE, data)}
              ELSE {Outcome(<< [type |-> "heatmap",
                                data |-> [r \in 1..Len(data.rows) |->
                                            [name  |-> data.rows[r].name,
                                             cells |-> [c \in yoy_cols |-> data.rows[r].vals[c]]]]] >>,
                            0, FALSE, data)}

(* bar chart that adds its average column to the table it was handed *)
plot_avg_bar_chart_inplace(data) ==
  IF Len(data.rows) = 0
    THEN {Outcome(<< >>, 1, FALSE, data)}
    ELSE LET yoy_cols == YoYCols(data)
             averaged == [r \in 1..Len(data.rows) |->
                            [name |-> data.rows[r].name,
                             avg  |-> RowMean(data.rows[r].vals, yoy_cols)]]
             mutated  == [data EXCEPT
                            !.columns = @ \o << <<"A", "v", "g", " ", "Y", "o", "Y">> >>,
                            !.rows = [r \in 1..Len(data.rows) |->
                                        [data.rows[r] EXCEPT !.vals = @ \o <<averaged[r].avg.num>>]]]
         IN {Outcome(<< [type |-> "bar", data |-> sorted] >>, 0, FALSE, mutated) :
               sorted \in SortValuesDescending(averaged)}

plot_avg_bar_chart(data) ==
  IF Len(data.rows) = 0
    THEN {Outcome(<< >>, 1, FALSE, data)}
    ELSE LET avg_data == Copy(data)
             yoy_cols == YoYCols(avg_data)
             averaged == [r \in 1..Len(avg_data.rows) |->
                            [name |-> avg_data.rows[r].name,
                             avg  |-> RowMean(avg_data.rows[r].vals, yoy_cols)]]
         IN {Outcome(<< [type |-> "bar", data |-> sorted] >>, 0, FALSE, data) :
               sorted \in SortValuesDescending(averaged)}

(* ---------------------------- display_results --------------------------- *)
Screen(info, error, sheets, table, widgets, charts, warnings, exception) ==
  [info |-> info, error |-> error, sheets |-> sheets, table |-> table,
   widgets |-> widgets, charts |-> charts, warnings |-> warnings,
   exception |-> exception]

(* the chart function chosen by lines 97-102 and the table it is handed *)
Dispatch(viz, fdata, flong) ==
  IF viz = LineChart THEN plot_yoy_line_chart(flong)
  ELSE IF viz = Heatmap THEN plot_yoy_heatmap(fdata)
  ELSE IF viz = BarChart THEN plot_avg_bar_chart(fdata)
  ELSE {Outcome(<< >>, 0, FALSE, fdata)}

(* returns the possible results: the screen, and the two tables as they    *)
(* are once the call is over.  With an empty selection the filtered        *)
(* tables are the caller's own objects; otherwise they are new frames.     *)
display_results(change, long, viz, selection, info, sheets) ==
  LET fdata == FilterRows(change, selection)
      flong == FilterRows(long, selection)
  IN {[screen |-> Screen(info, FALSE, sheets, change, TRUE,
                         o.charts, o.warnings, o.exception),
       yoy_change |-> IF selection = {} /\ viz # LineChart THEN o.data ELSE change,
       yoy_long   |-> IF selection = {} /\ viz = LineChart THEN o.data ELSE long,
       filtered_data |-> fdata,
       filtered_long |-> flong] :
        o \in Dispatch(viz, fdata, flong)}

(* ------------------------------ sample data ----------------------------- *)
Y2(d) == SampleLabel(<<"2", "0", "0", d>>)
Y3(d) == SampleLabel(<<"2", "0", "1", d>>)

sample_data ==
  DataFrame(
    << Y2("6"), Y2("7"), Y2("8"), Y2("9"), Y3("0"), Y3("1"), Y3("2"), Y3("3"), Y3("4"), Y3("5") >>,
    << [name |-> "Indonesia",   code |-> "IDN",
        vals |-> <<  97,  137,  -23,   -3, -326,   -9, 121,  81,  176, 182>>],
       [name |-> "Philippines", code |-> "PHL",
        vals |-> << -30,  -24,  -38,   17,   41, -173,  -4,  -3,  301, 104>>],
       [name |-> "Viet Nam",    code |-> "VNM",
        vals |-> << -19,  -20,   67,  -38,   93,  -23,  83, 124, -109,  -4>>],
       [name |-> "Myanmar",     code |-> "MMR",
        vals |-> << 639, -159, -193,   69,  136,  215, 440,  96,  281, -91>>],
       [name |-> "Cambodia",    code |-> "KHM",
        vals |-> <<-120,  263, -216,   34,  228, -136, 136,  31,  -74, 173>> ] >>)

(* ----------------------------- the whole script ------------------------- *)
Result(data, change, long, fdata, flong, scr) ==
  [yoy_data |-> data, yoy_change |-> change, yoy_long |-> long,
   filtered_data |-> fdata, filtered_long |-> flong, screen |-> scr]

(* lines 209-210 and 232-233: process_data, then display_results *)
ProcessAndDisplay(data, viz, selection, info, sheets) ==
  LET p == process_data(data)
  IN IF p.raised
       THEN {Result(p.data, None, None, None, None,
                    Screen(info, FALSE, sheets, None, FALSE, << >>, 0, TRUE))}
       ELSE {Result(p.data, d.yoy_change, d.yoy_long,
                    d.filtered_data, d.filtered_long, d.screen) :
               d \in display_results(p.yoy_change, p.yoy_long, viz, selection, info, sheets)}

(* lines 205-233: the possible results of one execution of the script *)
Script(file, sample, viz, selection) ==
  IF ~IsNone(file)
    THEN LET l == load_data(file)
         IN IF ~IsNone(l.data)
              THEN ProcessAndDisplay(l.data, viz, selection, FALSE, l.sheets)
              ELSE {Result(None, None, None, None, None,
                           Screen(FALSE, l.error, l.sheets, None, FALSE, << >>, 0, FALSE))}
    ELSE IF sample
           THEN ProcessAndDisplay(sample_data, viz, selection, TRUE, {})
           ELSE {Result(None, None, None, None, None,
                        Screen(TRUE, FALSE, {}, None, FALSE, << >>, 0, FALSE))}

(* ------------------------ what a user can upload ------------------------ *)
Lbl2006YoY == <<"2", "0", "0", "6", " ", "Y", "o", "Y">>
Lbl2007YoY == <<"2", "0", "0", "7", " ", "Y", "o", "Y">>
Lbl2006Abs == <<"2", "0", "0", "6", " ", "a", "b", "s">>
LblYoY     == <<"Y", "o", "Y">>
LabelPool  == {Lbl2006YoY, Lbl2007YoY, Lbl2006Abs, LblYoY}

CountryNames == {"Laos", "Fiji"}
CodeOf(n)    == IF n = "Laos" THEN "LAO" ELSE "FJI"
(* a row holds level, 2*level, 3*level, ... in its year columns *)
Levels       == {-15, 20}
RowValues(level, n) == [c \in 1..n |-> level * c]
SheetNames   == {RequiredSheet, "Sheet1"}

SeqsUpTo(S, n) == UNION {[1..k -> S] : k \in 0..n}

(* read_excel never yields two columns with the same label *)
ColumnLists == {cs \in SeqsUpTo(LabelPool, MaxCols) :
                  \A i, j \in 1..Len(cs) : cs[i] = cs[j] => i = j}

WideTables ==
  UNION {{DataFrame(cs, rs) :
            rs \in SeqsUpTo({[name |-> n, code |-> CodeOf(n),
                                vals |-> RowValues(v, Len(cs))] :
                               n \in CountryNames, v \in Levels},
                            MaxRows)} :
         cs \in ColumnLists}

EmptyTable == DataFrame(<< >>, << >>)

(* every workbook keeps a sheet Sheet1; whether it also has the required  *)
(* sheet, and what that sheet holds, varies                               *)
Workbooks ==
  {[kind |-> "file", sheets |-> SheetNames, data |-> t] : t \in WideTables}
  \cup {[kind |-> "file", sheets |-> SheetNames \ {RequiredSheet}, data |-> EmptyTable]}

(* ------------------------------- actions -------------------------------- *)
DefaultViz == LineChart

InitApp ==
  /\ uploaded_file = None
  /\ sample_checked = FALSE
  /\ viz_type = DefaultViz
  /\ selected_countries = {}
  /\ yoy_data = None
  /\ yoy_change = None
  /\ yoy_long = None
  /\ filtered_data = None
  /\ filtered_long = None
  /\ screen = Screen(TRUE, FALSE, {}, None, FALSE, << >>, 0, FALSE)

(* a widget that the run does not render loses its value *)
Rerun(file, sample, viz, selection) ==
  \E res \in Script(file, sample, viz, selection) :
     /\ uploaded_file' = file
     /\ sample_checked' = (IsNone(file) /\ sample)
     /\ viz_type' = IF res.screen.widgets THEN viz ELSE DefaultViz
     /\ selected_countries' = IF res.screen.widgets THEN selection ELSE {}
     /\ yoy_data' = res.yoy_data
     /\ yoy_change' = res.yoy_change
     /\ yoy_long' = res.yoy_long
     /\ filtered_data' = res.filtered_data
     /\ filtered_long' = res.filtered_long
     /\ screen' = res.screen
     /\ UNCHANGED << label, year >>

(* the uploader holds one file; a replacement is a removal and an upload *)
UploadFile ==
  /\ IsNone(uploaded_file)
  /\ \E f \in Workbooks : Rerun(f, FALSE, viz_type, {})

RemoveFile ==
  /\ ~IsNone(uploaded_file)
  /\ Rerun(None, FALSE, viz_type, {})

ToggleSample ==
  /\ IsNone(uploaded_file)
  /\ Rerun(None, ~sample_checked, viz_type, {})

SelectViz ==
  /\ screen.widgets
  /\ \E v \in VizTypes \ {viz_type} :
        Rerun(uploaded_file, sample_checked, v, selected_countries)

SelectCountries ==
  /\ screen.widgets
  /\ \E sel \in SUBSET CountryOptions(yoy_change) :
        /\ sel # selected_countries
        /\ Rerun(uploaded_file, sample_checked, viz_type, sel)

Init == InitApp /\ label = << >> /\ year = None

Next == UploadFile \/ RemoveFile \/ ToggleSample \/ SelectViz \/ SelectCountries

Spec == Init /\ [][Next]_vars

(* ------------------- year extraction on its own ------------------------- *)
LabelAlphabet == {"1", "2", " "}
Labels == SeqsUpTo(LabelAlphabet, MaxLabelLen)

InitYear == InitApp /\ label \in Labels /\ year = None

ExtractYear ==
  /\ year' = ParseYear(label)
  /\ UNCHANGED << uploaded_file, sample_checked, viz_type, selected_countries,
                  yoy_data, yoy_change, yoy_long, filtered_data, filtered_long,
                  screen, label >>

NextYear == ExtractYear

SpecYear == InitYear /\ [][NextYear]_vars

(* ======================= properties of the program ======================= *)
Processed == ~IsNone(yoy_long)
Displayed == screen.widgets
R == NumRows(yoy_data)
Y == NumCols(yoy_data)

NoFourDigits(s) == \A i \in 1..(Len(s) - 3) : \E k \in 0..3 : s[i + k] \notin DigitChars

UniqueNames(df) ==
  \A i, j \in 1..Len(df.rows) : df.rows[i].name = df.rows[j].name => i = j

DistinctYears(df) ==
  \A i, j \in 1..Len(df.columns) :
     StrExtract(df.columns[i]) = StrExtract(df.columns[j]) => i = j

NoDuplicatePairs(long) ==
  \A i, j \in 1..Len(long.rows) :
     (long.rows[i].name = long.rows[j].name /\ long.rows[i].Year = long.rows[j].Year)
        => i = j

(* C1 as stated: for any wide table with R rows and Y year columns the     *)
(* long table has exactly R*Y rows and no two rows with the same           *)
(* (Country Name, Year) pair.                                              *)
C1_AnyTableNoDuplicates ==
  Processed => Len(yoy_long.rows) = R * Y /\ NoDuplicatePairs(yoy_long)

(* C1 amended: the long table has exactly R*Y rows for any wide table; it  *)
(* has no two rows with the same (Country Name, Year) pair when the wide   *)
(* table's country names are unique and its columns carry distinct years.  *)
C1_RowCountAndNoDuplicates ==
  Processed =>
    /\ Len(yoy_long.rows) = R * Y
    /\ (UniqueNames(yoy_data) /\ DistinctYears(yoy_data)) => NoDuplicatePairs(yoy_long)

C1_Witness ==
  /\ Processed /\ ~IsNone(uploaded_file)
  /\ R = MaxRows /\ Y = 2
  /\ UniqueNames(yoy_data) /\ DistinctYears(yoy_data)
  /\ Len(yoy_long.rows) = 2 * MaxRows

SelectedIdx(orig, selection) == {j \in 1..Len(orig) : orig[j].name \in selection}

ExactlySelected(filt, orig, selection) ==
  LET idx == SelectedIdx(orig, selection)
  IN /\ Len(filt) = Cardinality(idx)
     /\ \A i \in 1..Len(filt) :
          filt[i] = orig[CHOOSE j \in idx : Cardinality({m \in idx : m <= j}) = i]

(* C3: an empty country selection leaves both tables unchanged; a          *)
(* non-empty selection of known names keeps exactly the rows whose         *)
(* Country Name is selected, in both tables, and the filtered long table   *)
(* has (filtered wide rows) x (year columns) rows.                         *)
C3_Filter ==
  Displayed =>
    /\ selected_countries = {} =>
         filtered_data = yoy_change /\ filtered_long = yoy_long
    /\ selected_countries # {} =>
         /\ ExactlySelected(filtered_data.rows, yoy_change.rows, selected_countries)
         /\ ExactlySelected(filtered_long.rows, yoy_long.rows, selected_countries)
         /\ filtered_data.columns = yoy_change.columns
    /\ Len(filtered_long.rows) = Len(filtered_data.rows) * Len(yoy_change.columns)

C3_Witness ==
  /\ Displayed /\ selected_countries # {}
  /\ 0 < Len(filtered_data.rows) /\ Len(filtered_data.rows) < Len(yoy_change.rows)
  /\ 0 < Len(filtered_long.rows) /\ Len(filtered_long.rows) < Len(yoy_long.rows)

BarDrawn == Displayed /\ Len(screen.charts) = 1 /\ screen.charts[1].type = "bar"
Bars == screen.charts[1].data

MeanIs(avg, vals, cols) == avg.num = SumOver(vals, cols) /\ avg.den = Cardinality(cols)

(* one bar per row of the filtered wide table, each the mean over cols(df) *)
OneBarPerRow(bars, df, cols) ==
  \E p \in Permutations(1..Len(df.rows)) :
     /\ Len(bars) = Len(df.rows)
     /\ \A k \in 1..Len(bars) :
          /\ bars[k].name = df.rows[p[k]].name
          /\ MeanIs(bars[k].avg, df.rows[p[k]].vals, cols)

DescendingBars(bars) ==
  \A k \in 1..(Len(bars) - 1) :
     bars[k].avg.den > 0 => bars[k].avg.num * bars[k + 1].avg.den
                              >= bars[k + 1].avg.num * bars[k].avg.den

(* C4 as stated: one bar per country of the filtered wide table, equal to  *)
(* the mean of ALL of that country's year columns, in descending order.    *)
C4_MeanOfAllYearColumns ==
  BarDrawn =>
    /\ OneBarPerRow(Bars, filtered_data, 1..Len(filtered_data.columns))
    /\ DescendingBars(Bars)

(* C4 amended: one bar per country of the filtered wide table, equal to    *)
(* the mean of that country's columns whose label contains 'YoY' (no value *)
(* when there is no such column), in descending order of that mean.        *)
C4_MeanOfYoYColumns ==
  BarDrawn =>
    /\ OneBarPerRow(Bars, filtered_data,
                    {c \in 1..Len(filtered_data.columns) :
                       Contains(filtered_data.columns[c], YoYMarker)})
    /\ DescendingBars(Bars)

C4_Witness ==
  /\ BarDrawn /\ ~IsNone(uploaded_file) /\ Len(Bars) = 2
  /\ Len(filtered_data.columns) = 2
  /\ \E c \in 1..2 : ~Contains(filtered_data.columns[c], YoYMarker)
  /\ \E c \in 1..2 : Contains(filtered_data.columns[c], YoYMarker)
  /\ Bars[1].avg.num > Bars[2].avg.num
  /\ Bars[1].name = filtered_data.rows[2].name

MissingSheet == ~IsNone(uploaded_file) /\ RequiredSheet \notin uploaded_file.sheets

(* C6: a workbook without a sheet named exactly YoY_Health_Expenditure     *)
(* gives the missing-sheet error and no data; that run shows no table, no  *)
(* chart, no widgets, and takes data from no other sheet nor the sample.   *)
C6_MissingSheet ==
  /\ MissingSheet =>
       /\ screen.error
       /\ IsNone(yoy_data) /\ IsNone(yoy_change) /\ IsNone(yoy_long)
       /\ IsNone(screen.table) /\ screen.charts = << >> /\ ~screen.widgets
       /\ ~screen.exception
  /\ screen.error => MissingSheet

C6_Witness ==
  MissingSheet /\ screen.error /\ "Sheet1" \in screen.sheets /\ IsNone(screen.table)

SampleShown == IsNone(uploaded_file) /\ sample_checked /\ Displayed

(* |avg - h/100 percent| < 0.005 percent, avg in tenths of a percent *)
ApproxPercent(avg, h) ==
  LET d == 20 * avg.num - 2 * h * avg.den
  IN avg.den > 0 /\ -avg.den < d /\ d < avg.den

SampleFacts(h) ==
  SampleShown =>
    /\ Len(yoy_long.rows) = 5 * 10
    /\ \E k \in 1..Len(yoy_long.rows) :
         yoy_long.rows[k].name = "Myanmar" /\ yoy_long.rows[k].Year = 2010
    /\ \A k \in 1..Len(yoy_long.rows) :
         (yoy_long.rows[k].name = "Myanmar" /\ yoy_long.rows[k].Year = 2010)
            => yoy_long.rows[k].value = 136
    /\ BarDrawn =>
         \A k \in 1..Len(Bars) :
            Bars[k].name = "Indonesia" => ApproxPercent(Bars[k].avg, h)

(* C7 as stated: with the sample data Indonesia's mean is about 4.31%,     *)
(* Myanmar's 2010 value is 13.6 and the long table has 50 rows.            *)
C7_SampleMean431 == SampleFacts(431)

(* C7 amended: with the sample data Indonesia's mean is about 4.33%,       *)
(* Myanmar's 2010 value is 13.6 and the long table has 50 rows.            *)
C7_SampleMean433 == SampleFacts(433)

C7_Witness ==
  /\ SampleShown /\ BarDrawn
  /\ \E k \in 1..Len(Bars) : Bars[k].name = "Indonesia"
  /\ Len(yoy_long.rows) = 50

BadLabel == ~IsNone(yoy_data) /\ \E c \in 1..Y : NoFourDigits(yoy_data.columns[c])

LoadFailed ==
  /\ screen.exception
  /\ IsNone(yoy_change) /\ IsNone(yoy_long)
  /\ IsNone(screen.table) /\ screen.charts = << >> /\ ~screen.widgets

NoCoercedYear ==
  Processed => \A k \in 1..Len(yoy_long.rows) :
                  \E c \in 1..Y : /\ ~NoFourDigits(yoy_data.columns[c])
                                  /\ yoy_long.rows[k].Year
                                       = AsTypeInt(StrExtract(yoy_data.columns[c]))

(* C8 as stated: if any pivoted column label has no run of four digits,    *)
(* process_data fails the whole load: no long table, no row with a null or *)
(* defaulted year, nothing rendered from the table.                        *)
C8_BadLabelAlwaysFails == (BadLabel => LoadFailed) /\ NoCoercedYear

(* C8 amended: if the wide table has at least one row and any pivoted      *)
(* column label has no run of four digits, process_data fails the whole    *)
(* load: no long table, nothing rendered from the table; and no long row   *)
(* ever carries a null or defaulted year.                                  *)
C8_BadLabelFailsNonEmptyTable == ((BadLabel /\ R >= 1) => LoadFailed) /\ NoCoercedYear

C8_Witness ==
  /\ BadLabel /\ R >= 1 /\ Y = 2 /\ screen.exception
  /\ \E c \in 1..Y : ~NoFourDigits(yoy_data.columns[c])

Handed == IF viz_type = LineChart THEN filtered_long ELSE filtered_data

ChartTypeOf(v) ==
  IF v = LineChart THEN "line" ELSE IF v = Heatmap THEN "heatmap" ELSE "bar"

(* C9: when the table handed to the chart function has zero rows no chart  *)
(* is drawn and one warning is shown; a chart is drawn only for a table    *)
(* with at least one row, and a render draws at most the one chart of the  *)
(* selected type.                                                          *)
C9_EmptyTableWarns ==
  /\ Displayed =>
       /\ Len(Handed.rows) = 0 => screen.charts = << >> /\ screen.warnings = 1
       /\ screen.charts # << >> =>
            /\ Len(Handed.rows) >= 1
            /\ Len(screen.charts) = 1
            /\ screen.charts[1].type = ChartTypeOf(viz_type)
            /\ screen.warnings = 0
  /\ ~Displayed => screen.charts = << >> /\ screen.warnings = 0

C9_Witness ==
  /\ Displayed /\ viz_type = Heatmap
  /\ Len(filtered_data.rows) = 0 /\ Len(filtered_data.columns) > 0
  /\ screen.warnings = 1 /\ screen.charts = << >>

SourceData ==
  IF ~IsNone(uploaded_file)
    THEN IF RequiredSheet \in uploaded_file.sheets THEN uploaded_file.data ELSE None
    ELSE IF sample_checked THEN sample_data ELSE None

(* C10: the tables are never mutated: the table given to process_data is   *)
(* still the one that was loaded, the wide table it returned equals it,    *)
(* and after display_results and the chart functions the wide and long     *)
(* tables are those process_data returned (no average column is added).    *)
C10_NoMutation ==
  /\ yoy_data.kind = SourceData.kind
  /\ ~IsNone(yoy_data) => yoy_data = SourceData
  /\ ~IsNone(yoy_change) =>
       /\ yoy_change = yoy_data
       /\ screen.table = yoy_data
       /\ yoy_long = process_data(SourceData).yoy_long
  /\ ~IsNone(filtered_data) => filtered_data.columns = SourceData.columns

C10_Witness ==
  /\ BarDrawn /\ selected_countries = {} /\ ~IsNone(uploaded_file)
  /\ Len(yoy_change.rows) = 2 /\ Len(yoy_change.columns) = 2
  /\ YoYCols(yoy_change) # {}

(* ------------------------ year extraction (C5) -------------------------- *)
(* starts of the maximal digit runs of length exactly four *)
ExactRuns(s) ==
  {i \in 1..(Len(s) - 3) :
     /\ \A k \in 0..3 : s[i + k] \in DigitChars
     /\ (i = 1 \/ s[i - 1] \notin DigitChars)
     /\ (i + 4 > Len(s) \/ s[i + 4] \notin DigitChars)}

RunValue(s, i) ==
  1000 * DigitVal(s[i]) + 100 * DigitVal(s[i + 1]) + 10 * DigitVal(s[i + 2]) + DigitVal(s[i + 3])

FirstRun(s) == CHOOSE i \in ExactRuns(s) : \A j \in ExactRuns(s) : i <= j

Extracted == year.kind # "None"

(* C5: every label with exactly one run of four digits is mapped to that   *)
(* run's integer value, and the year is taken from the first run of        *)
(* exactly four digits.                                                    *)
C5_FirstRunOfExactlyFour ==
  Extracted =>
    /\ Cardinality(ExactRuns(label)) = 1 =>
         year.kind = "int" /\ year.val = RunValue(label, FirstRun(label))
    /\ year.kind = "int" =>
         ExactRuns(label) # {} /\ year.val = RunValue(label, FirstRun(label))
====
